---------------------------- MODULE Spec2Model ----------------------------
(***************************************************************************)
(* GovBR news dashboard (src/app/main.py, class GovBRNewsAnalysis).        *)
(*                                                                         *)
(* One script run (GovBRNewsAnalysis.run) is one step: the user's widget   *)
(* event, then load_data, select_agencies, the agency filter, the day      *)
(* slider, filter_data, the two aggregations, the metric, plot_total, the  *)
(* rank slider, plot_by_agency and display_filtered_articles.              *)
(*                                                                         *)
(* A calendar day is its number of days since 1970-01-01.  An agency is a  *)
(* positive integer, agencies ordered as their names sort.  A data frame   *)
(* is the set of its rows; a grouped or sorted table is a sequence.        *)
(***************************************************************************)
EXTENDS Integers, Sequences, FiniteSets

\* ------------------------------------------------------------------ bounds

\* articles of ArticlePool a Pipeline dataset is drawn from
NumArticles == 4
\* datasets of DatasetPool the external hub can serve
NumDatasets == 3
\* largest rank fed directly to the rank selector
MaxRank == 3
\* clock steps the model lets pass
MaxTicks == 3

\* --------------------------------------------------------------- calendar

Min(a, b) == IF a <= b THEN a ELSE b
Max(a, b) == IF a >= b THEN a ELSE b

\* datetime(y, m, d).date() as a day number
DaysFromCivil(y, m, d) ==
    LET yy  == IF m <= 2 THEN y - 1 ELSE y
        era == yy \div 400
        yoe == yy - era * 400
        mp  == IF m > 2 THEN m - 3 ELSE m + 9
        doy == (153 * mp + 2) \div 5 + d - 1
        doe == yoe * 365 + yoe \div 4 - yoe \div 100 + doy
    IN  era * 146097 + doe - 719468

\* <<year, month, day of month>> of a day number
CivilFromDays(z) ==
    LET zz  == z + 719468
        era == zz \div 146097
        doe == zz - era * 146097
        yoe == (doe - doe \div 1460 + doe \div 36524 - doe \div 146096) \div 365
        doy == doe - (365 * yoe + yoe \div 4 - yoe \div 100)
        mp  == (5 * doy + 2) \div 153
        d   == doy - (153 * mp + 2) \div 5 + 1
        m   == IF mp < 10 THEN mp + 3 ELSE mp - 9
        y   == yoe + era * 400 + (IF m <= 2 THEN 1 ELSE 0)
    IN  <<y, m, d>>

\* df["published_at"].dt.year
YearOf(z) == CivilFromDays(z)[1]

\* df["published_at"].dt.to_period("M").dt.to_timestamp(): first day of the month
MonthStart(z) == z - (CivilFromDays(z)[3] - 1)

\* df["published_at"].dt.to_period("W").dt.to_timestamp(): the Monday of the
\* Monday-to-Sunday week (1970-01-01 was a Thursday)
WeekStart(z) == z - ((z + 3) % 7)

\* the column GovBRNewsAnalysis.granularity_column names, of one row
Bucket(g, z) ==
    CASE g = "year"  -> YearOf(z)
      [] g = "month" -> MonthStart(z)
      [] g = "week"  -> WeekStart(z)
      [] g = "day"   -> z

\* strftime labels of plot_total / plot_by_agency: "%Y-%m", "%G-W%V",
\* "%Y-%m-%d" as tuples of their fields; a year stays a number
FormatBucket(g, b) ==
    CASE g = "year"  -> <<b>>
      [] g = "month" -> <<CivilFromDays(b)[1], CivilFromDays(b)[2]>>
      [] g = "week"  ->
            LET thu == b + 3
                y   == YearOf(thu)
            IN  <<y, (thu - DaysFromCivil(y, 1, 1)) \div 7 + 1>>
      [] g = "day"   -> CivilFromDays(b)

\* ------------------------------------------------------------------- data

Granularities == {"year", "month", "week", "day"}

\* st.slider(min_value=datetime(2000, 1, 1).date(), ...)
SliderMinDay == DaysFromCivil(2000, 1, 1)
\* value=(datetime(2010, 1, 1).date(), max_value)
DefaultStartDay == DaysFromCivil(2010, 1, 1)
\* min(10, max_agencies)
DefaultTopRank == 10
\* self.df["day"].max() of a frame with no rows: NaN, which is no day
NaN == -1

Article(i, a, z, t) == [id |-> i, agency |-> a, day |-> z, title |-> t]

\* rows the hub may hold; title is FALSE for a row whose title is missing
ArticlePool ==
    << Article(1, 1, DaysFromCivil(2021, 1, 1), FALSE),
       Article(2, 1, DaysFromCivil(2021, 1, 2), FALSE),
       Article(3, 2, DaysFromCivil(2021, 1, 1), TRUE),
       Article(4, 3, DaysFromCivil(2020, 12, 27), TRUE),
       Article(5, 2, DaysFromCivil(2020, 12, 28), TRUE),
       Article(6, 3, DaysFromCivil(2009, 6, 15), TRUE) >>

Rows(ids) == {ArticlePool[i] : i \in ids \cap (1..Len(ArticlePool))}

\* what load_dataset may return on a successful fetch
DatasetPool ==
    << Rows({1, 2, 3}), Rows({1, 2}), Rows({6}), Rows({3, 4}) >>

Datasets == {DatasetPool[i] : i \in 1..Min(NumDatasets, Len(DatasetPool))}

PipelineDatasets == SUBSET Rows(1..NumArticles)

\* days a user drags a slider end to, besides the slider's own ends
DayChoices ==
    {SliderMinDay}

\* -------------------------------------------------------- sequence helpers

RECURSIVE SortAsc(_)
\* a set of integers in ascending order
SortAsc(S) ==
    IF S = {} THEN <<>>
    ELSE LET m == CHOOSE x \in S : \A y \in S : x <= y
         IN  <<m>> \o SortAsc(S \ {m})

RECURSIVE SumCounts(_, _)
\* the sum of column c of a table
SumCounts(t, c) ==
    IF t = <<>> THEN 0 ELSE Head(t)[c] + SumCounts(Tail(t), c)

RECURSIVE Concat(_)
Concat(ss) == IF ss = <<>> THEN <<>> ELSE Head(ss) \o Concat(Tail(ss))

\* Python's seq[start:stop] (negative indices count from the end)
PySlice(s, start, stop) ==
    LET n  == Len(s)
        lo == IF start < 0 THEN Max(n + start, 0) ELSE Min(start, n)
        hi == IF stop < 0 THEN Max(n + stop, 0) ELSE Min(stop, n)
    IN  IF lo >= hi THEN <<>> ELSE SubSeq(s, lo + 1, hi)

Range(s) == {s[i] : i \in 1..Len(s)}

\* F applied to the value of v: an assignment `x = v` followed by code that
\* reads x
Bind(v, F(_)) == CHOOSE r \in {F(x) : x \in {v}} : TRUE

\* ------------------------------------------------------------ the pipeline

\* sorted(self.df["agency"].unique().tolist()), as a set
AgenciesOf(df) == {r.agency : r \in df}

\* self.df[self.df["agency"].isin(selected_agencies)]
FilterAgencies(df, selected) == {r \in df : r.agency \in selected}

\* get_min_max_values: <<min, max>> of column day
get_min_max_values(df) ==
    IF df = {} THEN <<NaN, NaN>>
    ELSE << CHOOSE z \in {r.day : r \in df} : \A r \in df : z <= r.day,
            CHOOSE z \in {r.day : r \in df} : \A r \in df : z >= r.day >>

\* filter_data with the end of the range left out
filter_data_open_end(df, selected_range) ==
    {r \in df : r.day >= selected_range[1] /\ r.day < selected_range[2]}

\* filter_data
filter_data(df, selected_range) ==
    {r \in df : r.day >= selected_range[1] /\ r.day <= selected_range[2]}

\* aggregate_data counting each bucket's distinct days, not its rows
aggregate_data_nunique(filtered_df, g) ==
    LET buckets == SortAsc({Bucket(g, r.day) : r \in filtered_df})
    IN  [i \in 1..Len(buckets) |->
            <<buckets[i],
              Cardinality({r.day : r \in
                             {x \in filtered_df : Bucket(g, x.day) = buckets[i]}})>>]

\* aggregate_data: value_counts().sort_index().reset_index(): rows
\* <<bucket, Count>>, ascending by bucket
aggregate_data(filtered_df, g) ==
    LET buckets == SortAsc({Bucket(g, r.day) : r \in filtered_df})
    IN  [i \in 1..Len(buckets) |->
            <<buckets[i],
              Cardinality({r \in filtered_df : Bucket(g, r.day) = buckets[i]})>>]

\* aggregate_by_agency: groupby([granularity, "agency"]).size(): rows
\* <<bucket, Agency, Count>>, ascending by bucket, then by agency
aggregate_by_agency(filtered_df, g) ==
    LET buckets == SortAsc({Bucket(g, r.day) : r \in filtered_df})
        group(b) ==
            LET ags == SortAsc({r.agency : r \in
                                 {x \in filtered_df : Bucket(g, x.day) = b}})
            IN  [j \in 1..Len(ags) |->
                    <<b, ags[j],
                      Cardinality({r \in filtered_df :
                                     Bucket(g, r.day) = b /\ r.agency = ags[j]})>>]
    IN  Concat([i \in 1..Len(buckets) |-> group(buckets[i])])

\* plot_total: data[granularity] = ....strftime(...), in place
plot_total(data, g) ==
    [i \in 1..Len(data) |-> <<FormatBucket(g, data[i][1]), data[i][2]>>]

RECURSIVE NLargest(_, _)
\* Series.nlargest(n): the n largest values, descending, the first of equal
\* values first; series is a sequence of <<index, value>>
NLargest(series, n) ==
    IF n <= 0 \/ series = <<>> THEN <<>>
    ELSE LET k == CHOOSE i \in 1..Len(series) :
                     /\ \A j \in 1..Len(series) : series[j][2] <= series[i][2]
                     /\ \A j \in 1..(i - 1) : series[j][2] < series[i][2]
             rest == SubSeq(series, 1, k - 1) \o SubSeq(series, k + 1, Len(series))
         IN  <<series[k]>> \o NLargest(rest, n - 1)

\* the rank slice cut as .iloc[rank_range[0] : rank_range[1]]
RankSliceFromZero(series, rank_range) ==
    LET top == NLargest(series, rank_range[2])
        cut == PySlice(top, rank_range[1], rank_range[2])
    IN  [i \in 1..Len(cut) |-> cut[i][1]]

\* .nlargest(rank_range[1]).iloc[rank_range[0] - 1 : rank_range[1]].index
RankSlice(series, rank_range) ==
    LET top == NLargest(series, rank_range[2])
        cut == PySlice(top, rank_range[1] - 1, rank_range[2])
    IN  [i \in 1..Len(cut) |-> cut[i][1]]

\* data.groupby("Agency")["Count"].sum(): <<agency, total>>, ascending by agency
AgencyTotals(data) ==
    LET ags == SortAsc({data[i][2] : i \in 1..Len(data)})
    IN  [j \in 1..Len(ags) |->
            <<ags[j],
              SumCounts(SelectSeq(data, LAMBDA row : row[2] = ags[j]), 3)>>]

\* filtered_df.groupby("agency")["title"].count(): the rows of each agency
\* whose title is not missing
TitleCounts(filtered_df) ==
    LET ags == SortAsc({r.agency : r \in filtered_df})
    IN  [j \in 1..Len(ags) |->
            <<ags[j],
              Cardinality({r \in filtered_df : r.agency = ags[j] /\ r.title})>>]

\* plot_by_agency: top_agencies
plot_by_agency(data, rank_range) == RankSlice(AgencyTotals(data), rank_range)

\* display_filtered_articles: top_agencies
display_filtered_articles(filtered_df, rank_range) ==
    RankSlice(TitleCounts(filtered_df), rank_range)

\* ---------------------------------------------------------------- widgets

\* @st.cache_data(ttl=3600 * 6), in seconds
TTL == 3600 * 6
\* the clock advances in steps of three hours
TickSeconds == 3600 * 3

\* load_data without its cache: every call fetches
CacheNeverValid(c, t) == FALSE

\* st.cache_data: the entry is served while it is younger than ttl
CacheValid(c, t) == c.stored /\ t - c.at < TTL

\* the entry, had load_data handed out the cached frame itself and run
\* narrowed it in place
CacheAfterRunShared(c, frame) == [c EXCEPT !.data = frame]

\* the entry st.cache_data holds after a run whose self.df is `frame`: load_data
\* hands out a copy and run rebinds self.df, so the entry is as it was
CacheAfterRun(c, frame) == c

\* the widget state of a slider the script has not built
NoSlider == [live |-> FALSE, arg |-> 0, min |-> 0, max |-> 0, value |-> <<0, 0>>]

\* st.slider's arguments are in order: min_value <= value[0] <= value[1] <= max_value
SliderArgsInOrder(lo, hi, value) ==
    lo <= hi /\ lo <= value[1] /\ value[1] <= value[2] /\ value[2] <= hi

\* the slider a build of Streamlit that does not raise makes of arguments out
\* of order: the ends of value swapped, the bounds widened to hold them
SliderWidened(lo, hi, value) ==
    LET lo1 == Min(lo, hi)
        hi1 == Max(lo1, hi)
        v   == IF value[1] > value[2] THEN <<value[2], value[1]>> ELSE value
    IN  [ok |-> TRUE, min |-> Min(v[1], lo1), max |-> Max(v[2], hi1), value |-> v]

SliderError == [ok |-> FALSE, min |-> 0, max |-> 0, value |-> <<0, 0>>]

\* st.slider(min_value=lo, max_value=hi, value=value) of a range: the widget
\* built, or the exception; `build` is what this Streamlit does with
\* arguments out of order
Slider(lo, hi, value, build) ==
    IF SliderArgsInOrder(lo, hi, value)
    THEN [ok |-> TRUE, min |-> lo, max |-> hi, value |-> value]
    ELSE IF build = "raises" THEN SliderError ELSE SliderWidened(lo, hi, value)

\* the day slider of run: max_value is NaN for a frame with no rows, and a date
\* and a float are arguments of different types, which st.slider refuses
DaySlider(max_value, build) ==
    IF max_value = NaN THEN SliderError
    ELSE Slider(SliderMinDay, max_value, <<DefaultStartDay, max_value>>, build)

\* the rank slider of run
RankSlider(max_agencies, build) ==
    Slider(1, max_agencies, <<1, Min(DefaultTopRank, max_agencies)>>, build)

\* what a slider built without a key returns: the value the user left in the
\* widget of the same arguments, else the default
SliderValue(state, arg, built) ==
    IF state.live /\ state.arg = arg THEN state.value ELSE built.value

SliderState(state, arg, built) ==
    [live |-> TRUE, arg |-> arg, min |-> built.min, max |-> built.max,
     value |-> SliderValue(state, arg, built)]

\* ----------------------------------------------------------------- the run

\* the outputs of a run, none rendered
NoView ==
    [selected_range |-> <<0, 0>>, filtered_df |-> {}, aggregated_data |-> <<>>,
     aggregated_by_agency |-> <<>>, total_articles |-> 0, rank_range |-> <<0, 0>>,
     chart_agencies |-> <<>>, table_agencies |-> <<>>, table_rows |-> {}]

\* lines 338-348 of run: filter_data, the aggregations, the metric, plot_total
Aggregated(frame, range, g) ==
    Bind(filter_data(frame, range), LAMBDA filtered :
        [NoView EXCEPT
            !.selected_range = range,
            !.filtered_df = filtered,
            !.aggregated_data = plot_total(aggregate_data(filtered, g), g),
            !.aggregated_by_agency = aggregate_by_agency(filtered, g),
            !.total_articles = Cardinality(filtered)])

\* lines 366-370 of run: plot_by_agency and display_filtered_articles
Ranked(view, rank) ==
    LET table == display_filtered_articles(view.filtered_df, rank)
    IN  [view EXCEPT
            !.rank_range = rank,
            !.chart_agencies = plot_by_agency(view.aggregated_by_agency, rank),
            !.table_agencies = table,
            !.table_rows = {r \in view.filtered_df : r.agency \in Range(table)}]

\* aggregated_by_agency["Agency"].nunique()
NUnique(data) == Cardinality({data[i][2] : i \in 1..Len(data)})

\* lines 350-370 of run: the rank slider, plot_by_agency and
\* display_filtered_articles, on the frame filtered to the Selection
RunRanks(frame, sess, view, build) ==
    Bind(NUnique(view.aggregated_by_agency), LAMBDA max_agencies :
    Bind(RankSlider(max_agencies, build), LAMBDA ranks :
        IF ~ranks.ok
        THEN [stage |-> "rank_error", df |-> frame, sess |-> sess, view |-> view]
        ELSE [stage |-> "done", df |-> frame,
              sess |-> [sess EXCEPT !.rank_slider =
                           SliderState(sess.rank_slider, max_agencies, ranks)],
              view |-> Ranked(view,
                              SliderValue(sess.rank_slider, max_agencies, ranks))]))

\* lines 320-348 of run: select_granularity, get_min_max_values, the day
\* slider, filter_data, the aggregations, the metric and plot_total
RunDays(frame, sess, build) ==
    Bind(get_min_max_values(frame)[2], LAMBDA max_value :
    Bind(DaySlider(max_value, build), LAMBDA days :
        IF ~days.ok
        THEN [stage |-> "date_error", df |-> frame, sess |-> sess, view |-> NoView]
        ELSE Bind(Aggregated(frame, SliderValue(sess.date_slider, max_value, days),
                             sess.granularity),
                  LAMBDA view :
                      RunRanks(frame,
                               [sess EXCEPT !.date_slider =
                                   SliderState(sess.date_slider, max_value, days)],
                               view, build))))

\* run, from select_agencies on, on the frame load_data returned; sess is the
\* session (session_state and the widgets' values) the run starts with
RunLoaded(loaded, sess, build) ==
    Bind(AgenciesOf(loaded), LAMBDA agencies :
    Bind([sess EXCEPT !.has_session = TRUE,
                      !.selected_agencies =
                          IF sess.has_session THEN sess.selected_agencies ELSE agencies,
                      !.button_agencies = agencies],
         LAMBDA s1 :
        IF ~(s1.selected_agencies \subseteq agencies)
        THEN \* st.multiselect: a default that is not among the options
             [stage |-> "select_error", df |-> loaded, sess |-> s1, view |-> NoView]
        ELSE Bind(FilterAgencies(loaded, s1.selected_agencies),
                  LAMBDA frame : RunDays(frame, s1, build))))

\* ------------------------------------------------------------------ state

VARIABLES
    now,              \* the clock, in seconds
    streamlit_build,  \* what st.slider does with arguments out of order
    cache,            \* the entry st.cache_data holds for load_data
    window,           \* the cache window: its start, the fetches made in it,
                      \* the snapshot the fetch that opened it stored
    last_load,        \* the last call of load_data: how it was served, when, with what
    session,          \* st.session_state and the widgets' values
    stage,            \* how far the last run got
    df,               \* self.df when the last run ended
    view              \* what the last run computed and rendered

vars == <<now, streamlit_build, cache, window, last_load, session, stage, df, view>>

\* a session before its first run: select_granularity's index=0 is "Year"
NewSessionState ==
    [has_session |-> FALSE, selected_agencies |-> {}, button_agencies |-> {},
     granularity |-> "year", date_slider |-> NoSlider, rank_slider |-> NoSlider]

NoCache == [stored |-> FALSE, at |-> 0, data |-> {}]

Init ==
    /\ now = 0
    /\ streamlit_build \in {"raises", "widens"}
    /\ cache = NoCache
    /\ window = [open |-> FALSE, start |-> 0, fetches |-> 0, data |-> {}]
    /\ last_load = [kind |-> "none", at |-> 0, data |-> {}]
    /\ session = NewSessionState
    /\ stage = "init"
    /\ df = {}
    /\ view = NoView

\* load_data as st.cache_data serves it: the cached snapshot, or else the fetch
\* of load_dataset, which fails or returns one of Datasets
LoadOutcomes ==
    IF CacheValid(cache, now)
    THEN {[kind |-> "hit", at |-> now, data |-> cache.data]}
    ELSE {[kind |-> "failed", at |-> now, data |-> {}]}
         \cup {[kind |-> "fetched", at |-> now, data |-> d] : d \in Datasets}

\* the cache window after a call of load_data: a fetch made while a window is
\* running counts in it, a successful fetch made outside one opens the next
WindowAfter(load) ==
    IF load.kind = "hit" THEN window
    ELSE IF window.open /\ load.at < window.start + TTL
    THEN [window EXCEPT !.fetches = @ + 1]
    ELSE IF load.kind = "fetched"
    THEN [open |-> TRUE, start |-> load.at, fetches |-> 1, data |-> load.data]
    ELSE window

\* run after load_data was served as `load`
RunOutcome(load, sess, build) ==
    IF load.kind = "failed"
    THEN [stage |-> "load_error", df |-> {}, sess |-> sess, view |-> NoView]
    ELSE RunLoaded(load.data, sess, build)

\* the entry after load_data was served as `load`
Stored(load) ==
    IF load.kind = "fetched"
    THEN [stored |-> TRUE, at |-> load.at, data |-> load.data]
    ELSE cache

\* one run of the script (GovBRNewsAnalysis().run()) in session sess
Script(sess) ==
    \E load \in LoadOutcomes :
    \E run \in {RunOutcome(load, sess, streamlit_build)} :
        /\ last_load' = load
        /\ window' = WindowAfter(load)
        /\ cache' = CacheAfterRun(Stored(load), run.df)
        /\ session' = run.sess
        /\ stage' = run.stage
        /\ df' = run.df
        /\ view' = run.view
        /\ UNCHANGED <<now, streamlit_build>>

\* widgets the last run built before it ended
MultiselectShown == stage \in {"date_error", "rank_error", "done"}
ButtonShown == stage \in {"select_error", "date_error", "rank_error", "done"}
DaySliderShown == stage \in {"rank_error", "done"}
RankSliderShown == stage = "done"

\* a browser opens the page: a session of its own, and its first run
OpenSession == Script(NewSessionState)

\* a rerun with no widget changed
Rerun ==
    /\ stage # "init"
    /\ Script(session)

\* the multiselect replaces the selection by a set of its options
ToggleSet ==
    /\ MultiselectShown
    /\ \E S \in SUBSET session.button_agencies :
          /\ S # session.selected_agencies
          /\ Script([session EXCEPT !.selected_agencies = S])

\* the button's on_click, reset_selection, with the agencies of the run that
\* built the button
ResetSelection ==
    /\ ButtonShown
    /\ Script([session EXCEPT !.selected_agencies = session.button_agencies])

\* select_granularity's selectbox
SetGranularity ==
    /\ MultiselectShown
    /\ \E g \in Granularities \ {session.granularity} :
          Script([session EXCEPT !.granularity = g])

\* the day slider, dragged to days within its bounds
SetDateRange ==
    /\ DaySliderShown
    /\ LET w == session.date_slider
           days == {z \in DayChoices \cup {w.min, w.max} : w.min <= z /\ z <= w.max}
       IN  \E s \in days, e \in days :
              /\ s <= e
              /\ <<s, e>> # w.value
              /\ Script([session EXCEPT !.date_slider.value = <<s, e>>])

\* the rank slider, dragged to ranks within its bounds
SetRankRange ==
    /\ RankSliderShown
    /\ LET w == session.rank_slider
       IN  \E l \in w.min..w.max, h \in w.min..w.max :
              /\ l <= h
              /\ <<l, h>> # w.value
              /\ Script([session EXCEPT !.rank_slider.value = <<l, h>>])

\* time passes between two interactions
Tick ==
    /\ now + TickSeconds <= MaxTicks * TickSeconds
    /\ now' = now + TickSeconds
    /\ UNCHANGED <<streamlit_build, cache, window, last_load, session, stage, df, view>>

Next ==
    \/ OpenSession
    \/ Rerun
    \/ ToggleSet
    \/ ResetSelection
    \/ SetGranularity
    \/ SetDateRange
    \/ SetRankRange
    \/ Tick

Spec == Init /\ [][Next]_vars

\* ------------------------------------------------- the pipeline on its own

\* days a date range fed directly to the filter starts or ends on
ProbeDays ==
    {DaysFromCivil(2020, 12, 27), DaysFromCivil(2021, 1, 1), DaysFromCivil(2021, 1, 2)}

PipelineAgencies == AgenciesOf(Rows(1..NumArticles))

\* a snapshot is loaded; no widget is built
PipelineInit ==
    /\ now = 0
    /\ streamlit_build = "raises"
    /\ \E d \in PipelineDatasets :
          /\ cache = [stored |-> TRUE, at |-> 0, data |-> d]
          /\ window = [open |-> TRUE, start |-> 0, fetches |-> 1, data |-> d]
          /\ last_load = [kind |-> "fetched", at |-> 0, data |-> d]
    /\ session = NewSessionState
    /\ stage = "init"
    /\ df = {}
    /\ view = NoView

\* the agency filter, filter_data, the aggregations and the two rank selections
\* of run, on a Selection, DateRange, Granularity and RankWindow given as
\* plain values
Evaluate ==
    /\ stage = "init"
    /\ \E selected \in SUBSET PipelineAgencies, s \in ProbeDays, e \in ProbeDays,
          g \in Granularities, low \in 1..MaxRank, high \in 1..MaxRank :
       \E frame \in {FilterAgencies(cache.data, selected)} :
       \E aggregated \in {Aggregated(frame, <<s, e>>, g)} :
          /\ session' = [session EXCEPT !.has_session = TRUE,
                                        !.selected_agencies = selected,
                                        !.granularity = g]
          /\ df' = frame
          /\ view' = Ranked(aggregated, <<low, high>>)
          /\ stage' = "done"
    /\ UNCHANGED <<now, streamlit_build, cache, window, last_load>>

PipelineNext == Evaluate

PipelineSpec == PipelineInit /\ [][PipelineNext]_vars

\* ----------------------------------------------------------------- claims

\* C1: the agency filter of run followed by filter_data returns exactly the
\* articles of the Dataset whose agency is in the Selection and whose day lies
\* in [start, end], both ends included; a range with start > end gives none.
C1_FilterExact ==
    stage = "done" =>
        LET range == view.selected_range
        IN  /\ view.filtered_df =
                 {r \in cache.data : /\ r.agency \in session.selected_agencies
                                     /\ range[1] <= r.day
                                     /\ r.day <= range[2]}
            /\ (range[1] > range[2] => view.filtered_df = {})

\* a range whose two ends are days of kept articles, with an article dropped
\* for its day and another for its agency
C1_Witness ==
    /\ stage = "done"
    /\ view.selected_range[1] < view.selected_range[2]
    /\ \E r \in view.filtered_df : r.day = view.selected_range[1]
    /\ \E r \in view.filtered_df : r.day = view.selected_range[2]
    /\ \E r \in cache.data : r.agency \notin session.selected_agencies
    /\ \E r \in df : r \notin view.filtered_df

\* the agencies of the filtered set, and each one's place in the ordering by
\* descending number of articles (equal numbers: the agency first in name order)
RankedAgencies == AgenciesOf(view.filtered_df)
ArticlesOf(a) == Cardinality({r \in view.filtered_df : r.agency = a})
PlaceOf(a) ==
    1 + Cardinality({b \in RankedAgencies :
                        \/ ArticlesOf(b) > ArticlesOf(a)
                        \/ ArticlesOf(b) = ArticlesOf(a) /\ b < a})

\* C2: for N agencies and a rank window (low, high) of positive integers the
\* rank selector of plot_by_agency returns, in rank order, the agencies at
\* places low..min(high, N) of the descending ordering: (1, N) all of them,
\* (k, k) one when k <= N and none when k > N, none when low > high.
C2_RankWindow ==
    stage = "done" =>
        LET N     == NUnique(view.aggregated_by_agency)
            low   == view.rank_range[1]
            high  == view.rank_range[2]
            chart == view.chart_agencies
        IN  /\ N = Cardinality(RankedAgencies)
            /\ Range(chart) =
                 {a \in RankedAgencies : low <= PlaceOf(a) /\ PlaceOf(a) <= Min(high, N)}
            /\ \A i \in 1..Len(chart) : PlaceOf(chart[i]) = low + i - 1
            /\ (low = 1 /\ high = N => Range(chart) = RankedAgencies)
            /\ (low = high /\ low <= N => Len(chart) = 1)
            /\ (low = high /\ low > N => chart = <<>>)
            /\ (low > high => chart = <<>>)

\* a window that starts past the first place and ends past the last agency,
\* over agencies that tie
C2_Witness ==
    /\ stage = "done"
    /\ view.rank_range[1] = 2
    /\ view.rank_range[2] > Cardinality(RankedAgencies)
    /\ Len(view.chart_agencies) = 1
    /\ \E a \in RankedAgencies, b \in RankedAgencies :
          a # b /\ ArticlesOf(a) = ArticlesOf(b)

\* C3: when no article matches the Selection and DateRange, the run ends
\* without an error, the metric shows 0 and the aggregations and the table
\* are empty.
C3_EmptyResultRenders ==
    LET loaded  == stage \notin {"init", "load_error"}
        offered == session.selected_agencies \subseteq AgenciesOf(last_load.data)
        nothing == \/ FilterAgencies(last_load.data, session.selected_agencies) = {}
                   \/ stage \in {"rank_error", "done"} /\ view.filtered_df = {}
    IN  loaded /\ offered /\ nothing =>
            /\ stage = "done"
            /\ view.total_articles = 0
            /\ view.aggregated_data = <<>>
            /\ view.aggregated_by_agency = <<>>
            /\ view.table_rows = {}

\* C4: the counts of aggregate_data sum to the number of rows of the filtered
\* set, and so do the counts of aggregate_by_agency, for every Granularity.
C4_CountsSum ==
    stage = "done" =>
        /\ SumCounts(view.aggregated_data, 2) = Cardinality(view.filtered_df)
        /\ SumCounts(view.aggregated_by_agency, 3) = Cardinality(view.filtered_df)
        /\ view.total_articles = Cardinality(view.filtered_df)

\* three articles of two agencies that fall in one bucket
C4_Witness ==
    /\ stage = "done"
    /\ Cardinality(view.filtered_df) = 3
    /\ Len(view.aggregated_data) = 1
    /\ Len(view.aggregated_by_agency) = 2

\* C5: the DateRange handed to filter_data starts and ends within
\* [min day, max day] of the days of the Dataset.
C5_RangeWithinDataset ==
    stage \in {"rank_error", "done"} =>
        LET days == get_min_max_values(last_load.data)
        IN  /\ days[1] <= view.selected_range[1]
            /\ view.selected_range[1] <= days[2]
            /\ days[1] <= view.selected_range[2]
            /\ view.selected_range[2] <= days[2]

\* C6: the rank slider is built without an error and the RankWindow handed to
\* the rank selector satisfies 1 <= low <= high <= M, M the number of agencies
\* with an article in the filtered set, M = 0 included.
C6_RankWindowWithinAgencies ==
    stage \in {"rank_error", "done"} =>
        LET M == Cardinality(AgenciesOf(view.filtered_df))
        IN  /\ stage = "done"
            /\ 1 <= view.rank_range[1]
            /\ view.rank_range[1] <= view.rank_range[2]
            /\ view.rank_range[2] <= M

\* C7: the Selection held in session state is a subset of the agencies of the
\* Dataset currently loaded, also after a reload of the Dataset.
C7_SelectionWithinDataset ==
    session.has_session /\ cache.stored =>
        session.selected_agencies \subseteq AgenciesOf(cache.data)

\* C8: in one cache window load_data fetches at most once; a call served
\* without a fetch falls in the window and returns the window's snapshot; a
\* fetch that succeeds is the first call of a window; a fetch that fails ends
\* the run in an error with nothing of the dashboard rendered.
C8_FetchOncePerWindow ==
    /\ window.fetches <= 1
    /\ last_load.kind = "hit" =>
          /\ window.open
          /\ window.start <= last_load.at
          /\ last_load.at < window.start + TTL
          /\ last_load.data = window.data
    /\ last_load.kind = "fetched" =>
          /\ window.start = last_load.at
          /\ window.fetches = 1
    /\ last_load.kind = "failed" =>
          /\ stage = "load_error"
          /\ view = NoView
          /\ ~(window.open /\ last_load.at < window.start + TTL)

\* a call made later in a window that opened when an earlier one could have
\* run out, served from the cache
C8_Witness ==
    /\ last_load.kind = "hit"
    /\ last_load.at > window.start
    /\ window.start >= TTL
    /\ stage = "done"

C10_SameAgencySets ==
    stage = "done" => Range(view.chart_agencies) = Range(view.table_agencies)

=============================================================================
